---- MODULE Spec2Model ----
(***************************************************************************)
(* Model of run_biased_timer_simulation, the Monte Carlo engine of the     *)
(* biological timer application.                                           *)
(*                                                                         *)
(*   weekly resolution : src/Streamlit_Timer_App_Pretty.py  (lines 10-47)  *)
(*   daily resolution  : src/Streamlit_Timer_App_MP4_Added4.py (11-54)     *)
(*                                                                         *)
(* Numbers.  A base frequency is held in hundredths (21 stands for 0.21).  *)
(* penalty_fraction is held in tenths (0.1 * rank is the integer rank).    *)
(* Effective frequencies and the uniform draws of np.random.rand() are     *)
(* numerators over 10^7, so that `rand() < effective` is an        *)
(* integer comparison.  The draws are chosen off every threshold the       *)
(* frequencies can produce, so floating point rounding cannot change the   *)
(* outcome of a comparison.                                                *)
(***************************************************************************)
EXTENDS Integers, Sequences, FiniteSets, TLC

\* ------------------------------------------------------------------ bounds
MaxEvents  == 2      \* longest event list enumerated exhaustively
MaxSamples == 2      \* largest num_samples
MaxWeeks   == 2      \* largest max_weeks

\* --------------------------------------------------------------- constants
PenaltyStep   == 1          \* 0.1 per rank, in tenths
FullPenalty   == 10         \* 1.0, in tenths
DaysPerWeek   == 7

\* --------------------------------------------------------------- inputs
ProbValues == {1, 21}       \* 0.01 and 0.21, the ends of the slider range

\* draws of np.random.rand(), numerators over 10^7, all in [0, 1)
Draws == {5, 300005, 9999995}

RECURSIVE SeqsUpTo(_, _)
SeqsUpTo(S, k) ==
    IF k = 0 THEN {<<>>}
    ELSE LET shorter == SeqsUpTo(S, k - 1)
         IN  shorter \cup {Append(s, x) : s \in {t \in shorter : Len(t) = k - 1}, x \in S}

\* one list of three events, two of them likely and one unlikely
TripleList == <<21, 1, 21>>

\* lists whose entries lie outside the open interval (0, 1)
OutOfRangeLists == { <<0>>, <<100, 21>> }

\* eleven events: one more than the ranks that can still fire
CutoffLen == FullPenalty \div PenaltyStep + 1

\* eleven events of 0.21
CutoffList == [k \in 1..CutoffLen |-> 21]

\* one event more: ranks 10 and 11 both carry a full penalty
LongList == [k \in 1..(CutoffLen + 1) |-> 21]

\* eleven events of which only the first and the last two can fire
SparseCutoffList ==
    [k \in 1..CutoffLen |-> IF k = 1 \/ k >= CutoffLen - 1 THEN 21 ELSE 0]

Configs ==
    [resolution : {"weekly", "daily"},
     prob_list  : SeqsUpTo(ProbValues, MaxEvents) \cup OutOfRangeLists \cup {TripleList},
     num_samples: 0..MaxSamples,
     max_weeks  : 0..MaxWeeks]
    \cup
    [resolution : {"weekly"},
     prob_list  : {CutoffList},
     num_samples: {1},
     max_weeks  : {1, 2}]
    \cup
    [resolution : {"weekly"},
     prob_list  : {LongList},
     num_samples: {1},
     max_weeks  : {1}]
    \cup
    [resolution : {"daily"},
     prob_list  : {SparseCutoffList},
     num_samples: {1},
     max_weeks  : {1}]
    \cup
    [resolution : {"weekly"},
     prob_list  : {<<21>>},
     num_samples: {MaxSamples + 1},
     max_weeks  : {MaxWeeks}]

VARIABLES
    resolution,          \* which file runs: "weekly" or "daily"
    prob_list,           \* argument: base frequencies, in hundredths
    num_samples,         \* argument
    max_weeks,           \* argument
    all_T,               \* result array (all_T / all_time_weeks)
    trial,               \* index of the for-loop over trials
    occurred,            \* occurred[i], i in 0..n-1
    week,                \* step counter of the weekly file
    day,                 \* step counter of the daily file
    unoccurred_indices,  \* snapshot taken at the top of a step
    rank,                \* enumerate() counter of the inner loop
    pause_index,         \* event under evaluation
    penalty_fraction,    \* 0.1 * rank, in tenths
    pc,                  \* control point
    draws,               \* calls of np.random.rand() made in the current step
    main_pc,             \* main(): "run" before the percentiles, "stats" after
    week_25,             \* main(): int(np.percentile(all_T, 25))
    week_50,             \* main(): int(np.percentile(all_T, 50))
    week_75,             \* main(): int(np.percentile(all_T, 75))
    app,                 \* state of the function of Streamlit_Timer_App.py
    clean                \* state of the function of Streamlit_Timer_App_Clean.py

vars == <<resolution, prob_list, num_samples, max_weeks, all_T, trial,
          occurred, week, day, unoccurred_indices, rank, pause_index,
          penalty_fraction, pc, draws, main_pc, week_25, week_50, week_75,
          app, clean>>

\* what main() computes from the returned collection
stats == <<main_pc, week_25, week_50, week_75>>

\* the two other weekly files, run side by side
peers == <<app, clean>>

config == <<resolution, prob_list, num_samples, max_weeks>>

n == Len(prob_list)

\* ------------------------------------------------------------ pure helpers

\* the filter `if not occ` left out
UnoccurredIndices_unfiltered(occ) == [k \in 1..n |-> k - 1]

\* [i for i, occ in enumerate(occurred) if not occ]
UnoccurredIndices(occ) ==
    SelectSeq([k \in 1..n |-> k - 1], LAMBDA i : ~occ[i])

\* any(occurred) written for all(occurred)
All_any(occ) == \E i \in DOMAIN occ : occ[i]

\* the completion test of the step dropped
All_never(occ) == FALSE

\* all(occurred)
All(occ) == \A i \in DOMAIN occ : occ[i]

\* min(0.1 * rank, 0.9): the penalty capped below 100%
PenaltyFraction_capped(r) == PenaltyStep * (IF r < 9 THEN r ELSE 9)

\* penalty counted from the second pending event on
PenaltyFraction_late(r) == PenaltyStep * (r - 1)

\* penalty_fraction = 0.1 * rank
PenaltyFraction(r) == PenaltyStep * r

\* the cutoff taken one rank late: a penalty of exactly 1.0 is evaluated
IsFullPenalty_gt(p) == p > FullPenalty

\* penalty_fraction >= 1.0
IsFullPenalty(p) == p >= FullPenalty

\* the base frequency taken without the penalty
EffectiveFreq_noPenalty(base, p) == base * 10 * 10000

\* effective_freq = base_freq * (1.0 - penalty_fraction), over 10^7
EffectiveFreq(base, p) == base * (10 - p) * 10000

\* base_daily = 1 - (1 - base_weekly)**(1/7), in millionths
BaseDaily(base) ==
    CASE base = 0   -> 0
      [] base = 1   -> 1435
      [] base = 21  -> 33114
      [] base = 100 -> 1000000

\* effective_daily = base_daily * (1 - penalty_fraction), over 10^7
EffectiveDaily(base, p) == BaseDaily(base) * (10 - p)

\* max_days = max_weeks * 7
MaxDays == max_weeks * DaysPerWeek

\* round(day / 7) written for the ceiling
CeilWeeks_round(d) == (2 * d + DaysPerWeek) \div (2 * DaysPerWeek)

\* day // 7 + 1 written for the ceiling
CeilWeeks_floorPlusOne(d) == d \div DaysPerWeek + 1

\* day // 7 written for the ceiling
CeilWeeks_floor(d) == d \div DaysPerWeek

\* weeks = math.ceil(day / 7)
CeilWeeks(d) == (d + DaysPerWeek - 1) \div DaysPerWeek

\* np.max(all_T)
MaxOf(a) == CHOOSE m \in {a[k] : k \in DOMAIN a} : \A k \in DOMAIN a : a[k] <= m

\* bins = range(1, np.max(all_T) + 2): the bin edges 1, 2, ..., max + 1
Bins == [b \in 1..(MaxOf(all_T) + 1) |-> b]

\* ------------------------------------ main(): the summary of the result

\* the k-th smallest entry of a (k from 0): np.percentile sorts first
KthSmallest(a, k) ==
    CHOOSE v \in {a[i] : i \in DOMAIN a} :
        /\ Cardinality({i \in DOMAIN a : a[i] < v}) <= k
        /\ Cardinality({i \in DOMAIN a : a[i] <= v}) >= k + 1

\* the interpolation with the sign of the lower neighbour flipped
Percentile_signSlip(a, q) ==
    LET N    == Cardinality(DOMAIN a)
        pos  == (N - 1) * q
        lo   == pos \div 100
        hi   == IF lo + 1 < N THEN lo + 1 ELSE lo
        frac == pos % 100
    IN  (100 * KthSmallest(a, lo)
           + frac * (KthSmallest(a, hi) + KthSmallest(a, lo))) \div 100

\* int(np.percentile(a, q)): linear interpolation between the two entries
\* around position (N - 1) * q / 100 of the sorted array, truncated
Percentile(a, q) ==
    LET N    == Cardinality(DOMAIN a)
        pos  == (N - 1) * q
        lo   == pos \div 100
        hi   == IF lo + 1 < N THEN lo + 1 ELSE lo
        frac == pos % 100
    IN  (100 * KthSmallest(a, lo)
           + frac * (KthSmallest(a, hi) - KthSmallest(a, lo))) \div 100

\* ------------------------ the weekly function of Streamlit_Timer_App.py

\* n = len(prob_list); all_T = np.zeros(num_samples, dtype=int)
App_Init ==
    [all_T |-> [k \in 0..(num_samples - 1) |-> 0],
     trial |-> 0,
     occurred |-> [i \in 0..(Len(prob_list) - 1) |-> FALSE],
     week |-> 0,
     unoccurred_indices |-> <<>>,
     rank |-> 0,
     event_index |-> 0,
     penalty_fraction |-> 0,
     pc |-> "for_trial"]

\* for trial in range(num_samples): occurred = [False] * n; week = 0
\* and, past the last trial, return all_T
App_ForTrial(s) ==
    IF s.trial < num_samples
       THEN [s EXCEPT !.occurred = [i \in 0..(Len(prob_list) - 1) |-> FALSE],
                      !.week = 0,
                      !.pc = "while"]
       ELSE [s EXCEPT !.pc = "done"]

\* while week < max_weeks: week += 1; unoccurred_indices = [...];
\* if not unoccurred_indices: break
App_While(s) ==
    IF s.week < max_weeks
       THEN LET pending == {i \in 0..(Len(prob_list) - 1) : ~s.occurred[i]}
                listed == SelectSeq([k \in 1..Len(prob_list) |-> k - 1],
                                    LAMBDA i : i \in pending)
            IN  [s EXCEPT !.week = @ + 1,
                          !.unoccurred_indices = listed,
                          !.rank = IF listed = <<>> THEN @ ELSE 0,
                          !.pc = IF listed = <<>> THEN "record" ELSE "for_event"]
       ELSE [s EXCEPT !.pc = "record"]

\* for rank, event_index in enumerate(unoccurred_indices):
\*     penalty_fraction = 0.1 * rank; if penalty_fraction >= 1.0: continue
\* and, after the last entry, if all(occurred): break
App_ForEvent(s) ==
    IF s.rank < Len(s.unoccurred_indices)
       THEN LET here == [s EXCEPT !.event_index = s.unoccurred_indices[s.rank + 1],
                                  !.penalty_fraction = s.rank]
            IN  IF here.penalty_fraction >= 10
                   THEN [here EXCEPT !.rank = @ + 1]
                   ELSE [here EXCEPT !.pc = "bernoulli"]
       ELSE [s EXCEPT !.pc = IF \A i \in DOMAIN s.occurred : s.occurred[i]
                                THEN "record"
                                ELSE "while"]

\* base_p = prob_list[event_index]; effective_p = base_p * (1.0 - penalty_fraction)
\* if np.random.rand() < effective_p: occurred[event_index] = True
App_Bernoulli(s, u) ==
    LET base_p == prob_list[s.event_index + 1]
        effective_p == base_p * (10 - s.penalty_fraction) * 10000
    IN  [s EXCEPT !.occurred = IF u < effective_p
                                  THEN [@ EXCEPT ![s.event_index] = TRUE]
                                  ELSE @,
                  !.rank = @ + 1,
                  !.pc = "for_event"]

\* all_T[trial] = week
App_Record(s) ==
    [s EXCEPT !.all_T = [@ EXCEPT ![s.trial] = s.week],
              !.trial = @ + 1,
              !.pc = "for_trial"]

\* one step of the function, fed the draw u
App_Next(s, u) ==
    CASE s.pc = "for_trial" -> App_ForTrial(s)
      [] s.pc = "while"     -> App_While(s)
      [] s.pc = "for_event" -> App_ForEvent(s)
      [] s.pc = "bernoulli" -> App_Bernoulli(s, u)
      [] s.pc = "record"    -> App_Record(s)
      [] s.pc = "done"      -> s

\* ------------------ the weekly function of Streamlit_Timer_App_Clean.py

\* n = len(prob_list); all_T = np.zeros(num_samples, dtype=int)
Clean_Init ==
    [all_T |-> [k \in 0..(num_samples - 1) |-> 0],
     trial |-> 0,
     occurred |-> [i \in 0..(Len(prob_list) - 1) |-> FALSE],
     week |-> 0,
     unoccurred_indices |-> <<>>,
     rank |-> 0,
     pause_index |-> 0,
     penalty_fraction |-> 0,
     pc |-> "for_trial"]

\* for trial in range(num_samples): occurred = [False] * n; week = 0
\* and, past the last trial, return all_T
Clean_ForTrial(s) ==
    IF s.trial < num_samples
       THEN [s EXCEPT !.occurred = [i \in 0..(Len(prob_list) - 1) |-> FALSE],
                      !.week = 0,
                      !.pc = "while"]
       ELSE [s EXCEPT !.pc = "done"]

\* while week < max_weeks: week += 1; unoccurred_indices = [...];
\* if not unoccurred_indices: break
Clean_While(s) ==
    IF s.week < max_weeks
       THEN LET pending == {i \in 0..(Len(prob_list) - 1) : ~s.occurred[i]}
                listed == SelectSeq([k \in 1..Len(prob_list) |-> k - 1],
                                    LAMBDA i : i \in pending)
            IN  [s EXCEPT !.week = @ + 1,
                          !.unoccurred_indices = listed,
                          !.rank = IF listed = <<>> THEN @ ELSE 0,
                          !.pc = IF listed = <<>> THEN "record" ELSE "for_event"]
       ELSE [s EXCEPT !.pc = "record"]

\* for rank, pause_index in enumerate(unoccurred_indices):
\*     penalty_fraction = 0.1 * rank; if penalty_fraction >= 1.0: continue
\* and, after the last entry, if all(occurred): break
Clean_ForEvent(s) ==
    IF s.rank < Len(s.unoccurred_indices)
       THEN LET here == [s EXCEPT !.pause_index = s.unoccurred_indices[s.rank + 1],
                                  !.penalty_fraction = s.rank]
            IN  IF here.penalty_fraction >= 10
                   THEN [here EXCEPT !.rank = @ + 1]
                   ELSE [here EXCEPT !.pc = "bernoulli"]
       ELSE [s EXCEPT !.pc = IF \A i \in DOMAIN s.occurred : s.occurred[i]
                                THEN "record"
                                ELSE "while"]

\* base_p = prob_list[pause_index]; effective_p = base_p * (1.0 - penalty_fraction)
\* if np.random.rand() < effective_p: occurred[pause_index] = True
Clean_Bernoulli(s, u) ==
    LET base_p == prob_list[s.pause_index + 1]
        effective_p == base_p * (10 - s.penalty_fraction) * 10000
    IN  [s EXCEPT !.occurred = IF u < effective_p
                                  THEN [@ EXCEPT ![s.pause_index] = TRUE]
                                  ELSE @,
                  !.rank = @ + 1,
                  !.pc = "for_event"]

\* all_T[trial] = week
Clean_Record(s) ==
    [s EXCEPT !.all_T = [@ EXCEPT ![s.trial] = s.week],
              !.trial = @ + 1,
              !.pc = "for_trial"]

\* one step of the function, fed the draw u
Clean_Next(s, u) ==
    CASE s.pc = "for_trial" -> Clean_ForTrial(s)
      [] s.pc = "while"     -> Clean_While(s)
      [] s.pc = "for_event" -> Clean_ForEvent(s)
      [] s.pc = "bernoulli" -> Clean_Bernoulli(s, u)
      [] s.pc = "record"    -> Clean_Record(s)
      [] s.pc = "done"      -> s

\* ------------------------------------------------------------------- Init
Init ==
    /\ \E c \in Configs :
          /\ resolution  = c.resolution
          /\ prob_list   = c.prob_list
          /\ num_samples = c.num_samples
          /\ max_weeks   = c.max_weeks
    /\ all_T = [k \in 0..(num_samples - 1) |-> 0]
    /\ trial = 0
    /\ occurred = [i \in 0..(n - 1) |-> FALSE]
    /\ week = 0
    /\ day = 0
    /\ unoccurred_indices = <<>>
    /\ rank = 0
    /\ pause_index = 0
    /\ penalty_fraction = 0
    /\ pc = "for_trial"
    /\ draws = 0
    /\ main_pc = "run"
    /\ week_25 = 0
    /\ week_50 = 0
    /\ week_75 = 0
    /\ app = App_Init
    /\ clean = Clean_Init

\* ---------------------------------------------------------------- actions

\* occurred = [False] * n hoisted out of the trial loop
TrialStartWeekly_noReset ==
    /\ resolution = "weekly"
    /\ pc = "for_trial"
    /\ trial < num_samples
    /\ week' = 0
    /\ pc' = "while"
    /\ UNCHANGED <<config, all_T, trial, occurred, day, unoccurred_indices,
                   rank, pause_index, penalty_fraction>>

\* for trial in range(num_samples): occurred = [False] * n; week = 0
TrialStartWeekly ==
    /\ resolution = "weekly"
    /\ pc = "for_trial"
    /\ trial < num_samples
    /\ occurred' = [i \in 0..(n - 1) |-> FALSE]
    /\ week' = 0
    /\ pc' = "while"
    /\ UNCHANGED <<config, all_T, trial, day, unoccurred_indices, rank,
                   pause_index, penalty_fraction>>

\* for trial in range(num_samples): occurred = [False] * n; day = 0
TrialStartDaily ==
    /\ resolution = "daily"
    /\ pc = "for_trial"
    /\ trial < num_samples
    /\ occurred' = [i \in 0..(n - 1) |-> FALSE]
    /\ day' = 0
    /\ pc' = "while"
    /\ UNCHANGED <<config, all_T, trial, week, unoccurred_indices, rank,
                   pause_index, penalty_fraction>>

\* while week <= max_weeks written for while week < max_weeks
WeekStep_inclusive ==
    /\ resolution = "weekly"
    /\ pc = "while"
    /\ week <= max_weeks
    /\ week' = week + 1
    /\ unoccurred_indices' = UnoccurredIndices(occurred)
    /\ IF unoccurred_indices' = <<>>
          THEN pc' = "record" /\ UNCHANGED rank
          ELSE pc' = "for_event" /\ rank' = 0
    /\ UNCHANGED <<config, all_T, trial, occurred, day, pause_index,
                   penalty_fraction>>

\* the flags re-initialised at the top of every step
WeekStep_reinit ==
    /\ resolution = "weekly"
    /\ pc = "while"
    /\ week < max_weeks
    /\ week' = week + 1
    /\ occurred' = [i \in 0..(n - 1) |-> FALSE]
    /\ unoccurred_indices' = UnoccurredIndices(occurred')
    /\ IF unoccurred_indices' = <<>>
          THEN pc' = "record" /\ UNCHANGED rank
          ELSE pc' = "for_event" /\ rank' = 0
    /\ UNCHANGED <<config, all_T, trial, day, pause_index, penalty_fraction>>

\* while week < max_weeks: week += 1; snapshot; break when it is empty
WeekStep ==
    /\ resolution = "weekly"
    /\ pc = "while"
    /\ week < max_weeks
    /\ week' = week + 1
    /\ unoccurred_indices' = UnoccurredIndices(occurred)
    /\ IF unoccurred_indices' = <<>>
          THEN pc' = "record" /\ UNCHANGED rank
          ELSE pc' = "for_event" /\ rank' = 0
    /\ UNCHANGED <<config, all_T, trial, occurred, day, pause_index,
                   penalty_fraction>>

\* while week < max_weeks fails
WeekLimit ==
    /\ resolution = "weekly"
    /\ pc = "while"
    /\ ~(week < max_weeks)
    /\ pc' = "record"
    /\ UNCHANGED <<config, all_T, trial, occurred, week, day,
                   unoccurred_indices, rank, pause_index, penalty_fraction>>

\* while day < max_days: day += 1; snapshot; break when it is empty
DayStep ==
    /\ resolution = "daily"
    /\ pc = "while"
    /\ day < MaxDays
    /\ day' = day + 1
    /\ unoccurred_indices' = UnoccurredIndices(occurred)
    /\ IF unoccurred_indices' = <<>>
          THEN pc' = "record" /\ UNCHANGED rank
          ELSE pc' = "for_event" /\ rank' = 0
    /\ UNCHANGED <<config, all_T, trial, occurred, week, pause_index,
                   penalty_fraction>>

\* while day < max_days fails
DayLimit ==
    /\ resolution = "daily"
    /\ pc = "while"
    /\ ~(day < MaxDays)
    /\ pc' = "record"
    /\ UNCHANGED <<config, all_T, trial, occurred, week, day,
                   unoccurred_indices, rank, pause_index, penalty_fraction>>

\* for rank, pause_index in enumerate(unoccurred_indices):
\*     penalty_fraction = 0.1 * rank; if penalty_fraction >= 1.0: continue
ForSkip ==
    /\ pc = "for_event"
    /\ rank < Len(unoccurred_indices)
    /\ pause_index' = unoccurred_indices[rank + 1]
    /\ penalty_fraction' = PenaltyFraction(rank)
    /\ IsFullPenalty(penalty_fraction')
    /\ rank' = rank + 1
    /\ pc' = "for_event"
    /\ UNCHANGED <<config, all_T, trial, occurred, week, day,
                   unoccurred_indices>>

\* the rank recomputed from the flags as they are now
ForEval_liveRank ==
    /\ pc = "for_event"
    /\ rank < Len(unoccurred_indices)
    /\ pause_index' = unoccurred_indices[rank + 1]
    /\ penalty_fraction' =
          PenaltyFraction(Cardinality({j \in 0..(pause_index' - 1) : ~occurred[j]}))
    /\ ~IsFullPenalty(penalty_fraction')
    /\ pc' = "bernoulli"
    /\ UNCHANGED <<config, all_T, trial, occurred, week, day,
                   unoccurred_indices, rank>>

\* same loop head, penalty below 1.0: go on to the Bernoulli trial
ForEval ==
    /\ pc = "for_event"
    /\ rank < Len(unoccurred_indices)
    /\ pause_index' = unoccurred_indices[rank + 1]
    /\ penalty_fraction' = PenaltyFraction(rank)
    /\ ~IsFullPenalty(penalty_fraction')
    /\ pc' = "bernoulli"
    /\ UNCHANGED <<config, all_T, trial, occurred, week, day,
                   unoccurred_indices, rank>>

\* if np.random.rand() < effective_freq: occurred[pause_index] = True,
\* for the draw u
BernoulliWeeklyDraw(u) ==
    /\ resolution = "weekly"
    /\ pc = "bernoulli"
    /\ occurred' =
          IF u < EffectiveFreq(prob_list[pause_index + 1], penalty_fraction)
             THEN [occurred EXCEPT ![pause_index] = TRUE]
             ELSE occurred
    /\ rank' = rank + 1
    /\ pc' = "for_event"
    /\ UNCHANGED <<config, all_T, trial, week, day, unoccurred_indices,
                   pause_index, penalty_fraction>>

\* the same with any draw of np.random.rand()
BernoulliWeekly == \E u \in Draws : BernoulliWeeklyDraw(u)

\* if np.random.rand() < effective_daily: occurred[pause_index] = True
BernoulliDaily ==
    /\ resolution = "daily"
    /\ pc = "bernoulli"
    /\ \E u \in Draws :
          occurred' =
             IF u < EffectiveDaily(prob_list[pause_index + 1], penalty_fraction)
                THEN [occurred EXCEPT ![pause_index] = TRUE]
                ELSE occurred
    /\ rank' = rank + 1
    /\ pc' = "for_event"
    /\ UNCHANGED <<config, all_T, trial, week, day, unoccurred_indices,
                   pause_index, penalty_fraction>>

\* inner loop exhausted: if all(occurred): break, else back to the while test
ForEnd ==
    /\ pc = "for_event"
    /\ ~(rank < Len(unoccurred_indices))
    /\ pc' = IF All(occurred) THEN "record" ELSE "while"
    /\ UNCHANGED <<config, all_T, trial, occurred, week, day,
                   unoccurred_indices, rank, pause_index, penalty_fraction>>

\* all_T[:] = week written for all_T[trial] = week
RecordWeekly_allSlots ==
    /\ resolution = "weekly"
    /\ pc = "record"
    /\ all_T' = [k \in DOMAIN all_T |-> week]
    /\ trial' = trial + 1
    /\ pc' = "for_trial"
    /\ UNCHANGED <<config, occurred, week, day, unoccurred_indices, rank,
                   pause_index, penalty_fraction>>

\* all_T[trial] = week
RecordWeekly ==
    /\ resolution = "weekly"
    /\ pc = "record"
    /\ all_T' = [all_T EXCEPT ![trial] = week]
    /\ trial' = trial + 1
    /\ pc' = "for_trial"
    /\ UNCHANGED <<config, occurred, week, day, unoccurred_indices, rank,
                   pause_index, penalty_fraction>>

\* weeks = math.ceil(day / 7); all_time_weeks[trial] = weeks
RecordDaily ==
    /\ resolution = "daily"
    /\ pc = "record"
    /\ all_T' = [all_T EXCEPT ![trial] = CeilWeeks(day)]
    /\ trial' = trial + 1
    /\ pc' = "for_trial"
    /\ UNCHANGED <<config, occurred, week, day, unoccurred_indices, rank,
                   pause_index, penalty_fraction>>

\* return all_T
Return ==
    /\ pc = "for_trial"
    /\ ~(trial < num_samples)
    /\ pc' = "done"
    /\ UNCHANGED <<config, all_T, trial, occurred, week, day,
                   unoccurred_indices, rank, pause_index, penalty_fraction>>

\* main(): week_25 = int(np.percentile(all_T, 25)), week_50, week_75, once
\* the call has returned; the widget of line 63 keeps num_samples positive
Percentiles ==
    /\ pc = "done"
    /\ main_pc = "run"
    /\ num_samples >= 1
    /\ week_25' = Percentile(all_T, 25)
    /\ week_50' = Percentile(all_T, 50)
    /\ week_75' = Percentile(all_T, 75)
    /\ main_pc' = "stats"
    /\ UNCHANGED <<config, all_T, trial, occurred, week, day,
                   unoccurred_indices, rank, pause_index, penalty_fraction,
                   pc, draws, peers>>

\* one file run by itself; draws counts the calls of np.random.rand() since
\* the top of the current step
Next ==
    \/ TrialStartWeekly /\ UNCHANGED <<draws, stats, peers>>
    \/ TrialStartDaily  /\ UNCHANGED <<draws, stats, peers>>
    \/ WeekStep         /\ draws' = 0 /\ UNCHANGED <<stats, peers>>
    \/ WeekLimit        /\ UNCHANGED <<draws, stats, peers>>
    \/ DayStep          /\ draws' = 0 /\ UNCHANGED <<stats, peers>>
    \/ DayLimit         /\ UNCHANGED <<draws, stats, peers>>
    \/ ForSkip          /\ UNCHANGED <<draws, stats, peers>>
    \/ ForEval          /\ UNCHANGED <<draws, stats, peers>>
    \/ BernoulliWeekly  /\ draws' = draws + 1 /\ UNCHANGED <<stats, peers>>
    \/ BernoulliDaily   /\ draws' = draws + 1 /\ UNCHANGED <<stats, peers>>
    \/ ForEnd           /\ UNCHANGED <<draws, stats, peers>>
    \/ RecordWeekly     /\ UNCHANGED <<draws, stats, peers>>
    \/ RecordDaily      /\ UNCHANGED <<draws, stats, peers>>
    \/ Return           /\ UNCHANGED <<draws, stats, peers>>
    \/ Percentiles

Spec == Init /\ [][Next]_vars

\* the interpreter runs the call to its end: some step is always taken
FairSpec == Spec /\ WF_vars(Next)

\* ----------------------------- the three weekly files run side by side

\* the other two files take their next step with the same draw
Together(u) ==
    /\ app' = App_Next(app, u)
    /\ clean' = Clean_Next(clean, u)

\* same event list, num_samples and horizon for the three files
InitEquiv == Init /\ resolution = "weekly"

\* each step of Streamlit_Timer_App_Pretty.py with the matching step of
\* Streamlit_Timer_App.py and Streamlit_Timer_App_Clean.py, on one draw
NextEquiv ==
    \/ \E u \in Draws : TrialStartWeekly /\ Together(u) /\ UNCHANGED <<draws, stats>>
    \/ \E u \in Draws : WeekStep /\ Together(u) /\ draws' = 0 /\ UNCHANGED stats
    \/ \E u \in Draws : WeekLimit /\ Together(u) /\ UNCHANGED <<draws, stats>>
    \/ \E u \in Draws : ForSkip /\ Together(u) /\ UNCHANGED <<draws, stats>>
    \/ \E u \in Draws : ForEval /\ Together(u) /\ UNCHANGED <<draws, stats>>
    \/ \E u \in Draws : BernoulliWeeklyDraw(u) /\ Together(u)
                            /\ draws' = draws + 1 /\ UNCHANGED stats
    \/ \E u \in Draws : ForEnd /\ Together(u) /\ UNCHANGED <<draws, stats>>
    \/ \E u \in Draws : RecordWeekly /\ Together(u) /\ UNCHANGED <<draws, stats>>
    \/ \E u \in Draws : Return /\ Together(u) /\ UNCHANGED <<draws, stats>>

SpecEquiv == InitEquiv /\ [][NextEquiv]_vars

TypeOK ==
    /\ pc \in {"for_trial", "while", "for_event", "bernoulli", "record", "done"}
    /\ trial \in 0..num_samples
    /\ week \in 0..max_weeks
    /\ day \in 0..MaxDays

\* ------------------------------------------------- vocabulary of the claims

EveryEventOccurred == \A i \in 0..(n - 1) : occurred[i]

StepCounter == IF resolution = "weekly" THEN week ELSE day

StepLimit == IF resolution = "weekly" THEN max_weeks ELSE max_weeks * 7

\* a trial has just been recorded and its locals are still in place
JustRecorded == pc \in {"for_trial", "done"} /\ trial >= 1

LastRecorded == all_T[trial - 1]

InStep == pc \in {"for_event", "bernoulli"}

\* rank of event i among the events of the step's snapshot
SnapshotRank(i) ==
    Cardinality({k \in 1..Len(unoccurred_indices) : unoccurred_indices[k] < i})

InSnapshot(i) == \E k \in 1..Len(unoccurred_indices) : unoccurred_indices[k] = i

\* rank of event i among the events pending right now
LiveRank(i) == Cardinality({j \in 0..(i - 1) : ~occurred[j]})

\* non-empty list, positive trial count and horizon, frequencies in (0, 1)
ValidConfig ==
    /\ n >= 1
    /\ num_samples >= 1
    /\ max_weeks >= 1
    /\ \A k \in 1..n : prob_list[k] > 0 /\ prob_list[k] < 100

\* ---------------------------------------------------------------- claims

\* C1: with a positive horizon every recorded completion value lies in
\* 0 .. max_weeks, in the weekly and in the daily file.
C1_RecordedWithinHorizon ==
    max_weeks >= 1 =>
        \A k \in 0..(trial - 1) : all_T[k] >= 0 /\ all_T[k] <= max_weeks

C1_Witness ==
    /\ pc = "done"
    /\ resolution = "daily"
    /\ max_weeks = 2
    /\ num_samples = 2
    /\ all_T[0] = 1
    /\ all_T[1] = 2

\* C2: a trial that leaves its step loop with an event still pending records
\* exactly max_weeks and is stored like any other; a recorded value below
\* max_weeks implies that every event occurred.
C2_Saturation ==
    /\ pc = "record" /\ ~EveryEventOccurred => StepCounter = StepLimit
    /\ JustRecorded =>
          /\ ~EveryEventOccurred => LastRecorded = max_weeks
          /\ LastRecorded < max_weeks => EveryEventOccurred

C2_Witness ==
    /\ JustRecorded
    /\ ~EveryEventOccurred
    /\ \E i \in 0..(n - 1) : occurred[i]
    /\ max_weeks = 2
    /\ LastRecorded = 2

\* C3: once the last pending event of a trial has fired, no further draw is
\* made and no further step is executed: the step counter keeps the value of
\* the step in which that event fired until the trial is recorded, and the
\* weekly file records that counter.
C3_StopsInCompletingStep ==
    [][ /\ (~EveryEventOccurred /\ EveryEventOccurred') =>
              /\ pc = "bernoulli"
              /\ rank' = Len(unoccurred_indices)
              /\ StepCounter' = StepCounter
        /\ (n >= 1 /\ EveryEventOccurred /\ pc \in {"for_event", "record"}) =>
              /\ week' = week
              /\ day' = day
              /\ occurred' = occurred
              /\ pc' \in {"record", "for_trial"}
              /\ (pc = "record" /\ resolution = "weekly") => all_T'[trial] = week
      ]_vars

C3_Witness ==
    /\ pc = "record"
    /\ n = 3
    /\ EveryEventOccurred
    /\ resolution = "weekly"
    /\ week = 1
    /\ max_weeks = 2

\* C4: an event whose rank in the step's snapshot is 10 or more is never
\* marked occurred in that step; in the first step of a trial, where every
\* event is pending, no event of index 10 or more occurs.
C4_FullPenaltyCutoff ==
    /\ [](InStep /\ StepCounter = 1 => \A i \in 0..(n - 1) : i >= 10 => ~occurred[i])
    /\ [][ \A i \in 0..(n - 1) :
              (~occurred[i] /\ occurred'[i]) =>
                  InStep /\ InSnapshot(i) /\ SnapshotRank(i) < 10 ]_vars

C4_Witness ==
    /\ pc = "for_event"
    /\ n = 11
    /\ StepCounter = 1
    /\ rank = 11
    /\ \A i \in 0..9 : occurred[i]
    /\ ~occurred[10]

\* C5: within a step the snapshot is the list of events pending at the top
\* of the step, in increasing index order, and it does not change during the
\* step; the event under evaluation is the snapshot's entry at the loop
\* counter and its penalty is 0.1 times its rank in the snapshot, whatever
\* fired earlier in the step.
C5_RankSnapshot ==
    /\ [](pc = "bernoulli" =>
            /\ rank < Len(unoccurred_indices)
            /\ pause_index = unoccurred_indices[rank + 1]
            /\ SnapshotRank(pause_index) = rank
            /\ penalty_fraction = SnapshotRank(pause_index))
    /\ [](InStep =>
            /\ \A k \in 1..(Len(unoccurred_indices) - 1) :
                   unoccurred_indices[k] < unoccurred_indices[k + 1]
            /\ \A i \in 0..(n - 1) : ~InSnapshot(i) => occurred[i]
            /\ \A k \in 1..Len(unoccurred_indices) :
                   k > rank => ~occurred[unoccurred_indices[k]])
    /\ [][ /\ (pc = "while" /\ pc' = "for_event") =>
                 /\ rank' = 0
                 /\ \A i \in 0..(n - 1) : InSnapshot(i)' <=> ~occurred[i]
           /\ (InStep /\ InStep') =>
                 /\ unoccurred_indices' = unoccurred_indices
                 /\ rank' \in {rank, rank + 1}
         ]_vars

C5_Witness ==
    /\ pc = "bernoulli"
    /\ n = 3
    /\ pause_index = 2
    /\ occurred[0]
    /\ occurred[1]
    /\ InSnapshot(0)
    /\ InSnapshot(1)
    /\ penalty_fraction = 2
    /\ LiveRank(pause_index) = 0

\* C6: the result has exactly num_samples slots; trials run in index order,
\* slot k is written when trial k ends and no other slot changes; slots of
\* trials not yet run are untouched, and the function returns after exactly
\* num_samples trials.
C6_ResultCollection ==
    /\ [](/\ DOMAIN all_T = 0..(num_samples - 1)
          /\ \A k \in DOMAIN all_T : k >= trial => all_T[k] = 0
          /\ (pc = "done" => trial = num_samples)
          /\ (pc \notin {"for_trial", "done"} => trial < num_samples))
    /\ [][ /\ (pc = "record") =>
                 /\ trial' = trial + 1
                 /\ all_T'[trial] = IF resolution = "weekly"
                                       THEN week
                                       ELSE (day + 6) \div 7
                 /\ \A k \in DOMAIN all_T : k # trial => all_T'[k] = all_T[k]
           /\ (pc # "record") => all_T' = all_T /\ trial' = trial
         ]_vars

C6_Witness ==
    /\ pc = "done"
    /\ num_samples = 2
    /\ all_T[0] = 2
    /\ all_T[1] = 1

\* C7: an invalid configuration is rejected before any trial runs and no
\* result collection is returned.
C7_InvalidConfigRejected ==
    ~ValidConfig => pc = "for_trial" /\ trial = 0

\* C9: the daily file records the smallest w with 7 * w >= day, where day is
\* the counter at loop exit: days 1..7 give 1, day 8 gives 2, the last
\* permitted day gives max_weeks, and the value never exceeds max_weeks.
C9_CeilWeeks ==
    (resolution = "daily" /\ JustRecorded) =>
        /\ 7 * LastRecorded >= day
        /\ 7 * (LastRecorded - 1) < day
        /\ LastRecorded <= max_weeks
        /\ (day \in 1..7 => LastRecorded = 1)
        /\ (day = 8 => LastRecorded = 2)
        /\ (day = max_weeks * 7 => LastRecorded = max_weeks)

C9_Witness ==
    /\ resolution = "daily"
    /\ JustRecorded
    /\ day = 8
    /\ LastRecorded = 2

\* C10: within a trial every occurred flag starts false and, once true, stays
\* true through every later step of the trial.
C10_OccurredMonotone ==
    /\ [](pc = "while" /\ StepCounter = 0 => \A i \in 0..(n - 1) : ~occurred[i])
    /\ [][ pc # "for_trial" =>
              \A i \in 0..(n - 1) : occurred[i] => occurred'[i] ]_vars

C10_Witness ==
    /\ pc = "bernoulli"
    /\ StepCounter = 2
    /\ n = 3
    /\ occurred[0]
    /\ ~InSnapshot(0)
    /\ occurred[1]
    /\ InSnapshot(1)

\* C11: every trial enters its step loop with all flags false and its step
\* counter at 0, whatever the preceding trial left behind, and no step ever
\* changes the event list, the horizon, the trial count or the resolution.
C11_NoInterTrialDependency ==
    /\ [](pc = "while" /\ StepCounter = 0 => \A i \in 0..(n - 1) : ~occurred[i])
    /\ [][ (pc = "for_trial" /\ pc' # "done") =>
              /\ pc' = "while"
              /\ StepCounter' = 0
              /\ \A i \in 0..(n - 1) : ~occurred'[i]
              /\ all_T' = all_T
              /\ trial' = trial ]_vars
    /\ [][ /\ prob_list' = prob_list
           /\ max_weeks' = max_weeks
           /\ num_samples' = num_samples
           /\ resolution' = resolution ]_vars

C11_Witness ==
    /\ pc = "while"
    /\ trial = 1
    /\ n = 3
    /\ all_T[0] = 1
    /\ StepCounter = 0
    /\ \A i \in 0..(n - 1) : ~occurred[i]
    /\ resolution = "weekly"

\* C12: the batch always ends; no trial takes more than max_weeks steps in
\* the weekly file or max_weeks * 7 in the daily file; the trial index only
\* moves forward by one, when a trial is recorded, and the function returns
\* after exactly num_samples trials.
C12_Termination ==
    /\ <>(pc = "done")
    /\ [](week <= max_weeks /\ day <= max_weeks * 7)
    /\ [](pc = "done" => trial = num_samples)
    /\ [][ trial' # trial => pc = "record" /\ trial' = trial + 1 ]_vars

C12_Witness ==
    /\ pc = "done"
    /\ num_samples = 2
    /\ resolution = "daily"
    /\ max_weeks = 2
    /\ day = 14
    /\ all_T[0] = 1

\* C13: in every step each event of the step's snapshot with rank < 10 gets
\* exactly one draw and no other event gets one: a draw is made only for a
\* snapshot event of rank < 10 that was pending at the top of the step, the
\* draws made so far equal the number of such events already passed, and at
\* the end of the step they number min(10, events pending at its top).
C13_OneDrawPerEligible ==
    /\ [](InStep => draws = (IF rank < 10 THEN rank ELSE 10))
    /\ []((InStep /\ rank = Len(unoccurred_indices)) =>
             draws = (IF Len(unoccurred_indices) < 10
                         THEN Len(unoccurred_indices) ELSE 10))
    /\ [][ draws' # draws =>
             \/ pc = "while" /\ draws' = 0
             \/ /\ pc = "bernoulli"
                /\ draws' = draws + 1
                /\ rank < 10
                /\ pause_index = unoccurred_indices[rank + 1]
                /\ ~occurred[pause_index]
       ]_vars
    /\ [][ (pc = "for_event" /\ pc' = "for_event" /\ rank' = rank + 1) =>
             (rank >= 10 /\ draws' = draws)
       ]_vars

C13_Witness ==
    /\ pc = "for_event"
    /\ n = 11
    /\ Len(unoccurred_indices) = 11
    /\ rank = 11
    /\ draws = 10
    /\ occurred[0]
    /\ ~occurred[10]

\* C14: the step counter is only ever advanced from a state in which it is
\* below the step limit and at least one event is still pending.
C14_AdvanceOnlyWhenPending ==
    [][ StepCounter' = StepCounter + 1 =>
           StepCounter < StepLimit /\ ~EveryEventOccurred ]_vars

\* C15: the first event evaluated in a step is the lowest-index pending
\* event, it carries penalty 0 and is never skipped, so it can fire in that
\* step; with a single event the penalty is 0 in every evaluation.
C15_LowestPendingEligible ==
    /\ [](pc = "bernoulli" /\ rank = 0 =>
            /\ penalty_fraction = 0
            /\ ~occurred[pause_index]
            /\ \A j \in 0..(pause_index - 1) : occurred[j]
            /\ ENABLED (Next /\ occurred'[pause_index]))
    /\ [](pc = "bernoulli" /\ n = 1 => penalty_fraction = 0)
    /\ [][ (pc = "for_event" /\ rank = 0 /\ Len(unoccurred_indices) > 0) =>
              pc' = "bernoulli" /\ penalty_fraction' = 0 ]_vars

\* C16: at the top of a step the rank given to a pending event is the number
\* of lower-index events pending at that moment, and an event that is still
\* pending gets a rank no larger than the one it had in the step before.
C16_RankCountsLowerPending ==
    [][ (pc = "while" /\ pc' = "for_event") =>
           /\ \A k \in 1..Len(unoccurred_indices') :
                 /\ ~occurred[unoccurred_indices'[k]]
                 /\ k - 1 = LiveRank(unoccurred_indices'[k])
           /\ StepCounter >= 1 =>
                 \A i \in 0..(n - 1) :
                    InSnapshot(i)' => InSnapshot(i) /\ SnapshotRank(i)' <= SnapshotRank(i)
      ]_vars

C16_Witness ==
    /\ InStep
    /\ StepCounter = 2
    /\ n = 3
    /\ occurred[0]
    /\ unoccurred_indices = <<1, 2>>
    /\ pc = "bernoulli"
    /\ pause_index = 2
    /\ penalty_fraction = 1

\* C17: no step marks more than 10 events; an event of index i >= 10 that has
\* occurred has at least i - 9 occurred events below it; after s steps of a
\* trial at most 10 * s events have occurred, so completing n events takes at
\* least ceil(n / 10) steps.
C17_TenPerStep ==
    /\ InStep =>
          Cardinality({i \in 0..(n - 1) : InSnapshot(i) /\ occurred[i]}) <= 10
    /\ pc # "for_trial" =>
          /\ Cardinality({i \in 0..(n - 1) : occurred[i]}) <= 10 * StepCounter
          /\ \A i \in 0..(n - 1) :
                (occurred[i] /\ i >= 10) =>
                    Cardinality({j \in 0..(i - 1) : occurred[j]}) >= i - 9
          /\ EveryEventOccurred => 10 * StepCounter >= n

C17_Witness ==
    /\ pc = "record"
    /\ n = 11
    /\ EveryEventOccurred
    /\ StepCounter = 2
    /\ Cardinality({i \in 0..(n - 1) : InSnapshot(i)}) = 1

\* C18: with max_weeks >= 1 every recorded completion value is at least 1,
\* so every entry of the returned collection lies between the first and the
\* last edge of the histogram bins range(1, max(result) + 2).
C18_RecordedAtLeastOne ==
    max_weeks >= 1 =>
        /\ \A k \in 0..(trial - 1) : all_T[k] >= 1
        /\ (pc = "done" /\ num_samples >= 1) =>
              \A k \in DOMAIN all_T :
                 \E b \in 1..(Len(Bins) - 1) : Bins[b] <= all_T[k] /\ all_T[k] <= Bins[b + 1]

C18_Witness ==
    /\ pc = "done"
    /\ resolution = "daily"
    /\ num_samples = 2
    /\ max_weeks = 2
    /\ all_T[0] = 1
    /\ all_T[1] = 2
    /\ day = 8

\* C19: the three summary values are integers computed from the returned
\* collection and satisfy min(result) <= week_25 <= week_50 <= week_75 <=
\* max(result), so each lies in 0..max_weeks; with a single trial all three
\* are that trial's value.
C19_PercentilesOrdered ==
    main_pc = "stats" =>
        LET lowest  == CHOOSE v \in {all_T[k] : k \in DOMAIN all_T} :
                          \A k \in DOMAIN all_T : v <= all_T[k]
            highest == CHOOSE v \in {all_T[k] : k \in DOMAIN all_T} :
                          \A k \in DOMAIN all_T : v >= all_T[k]
        IN  /\ week_25 \in Int /\ week_50 \in Int /\ week_75 \in Int
            /\ lowest <= week_25
            /\ week_25 <= week_50
            /\ week_50 <= week_75
            /\ week_75 <= highest
            /\ {week_25, week_50, week_75} \subseteq 0..max_weeks
            /\ num_samples = 1 => {week_25, week_50, week_75} = {all_T[0]}

C19_Witness ==
    /\ main_pc = "stats"
    /\ num_samples = 3
    /\ all_T[0] = 2
    /\ all_T[1] = 1
    /\ all_T[2] = 2
    /\ week_25 = 1
    /\ week_50 = 2
    /\ week_75 = 2

\* C20: run side by side on the same event list, num_samples, horizon and
\* draws, the weekly functions of Streamlit_Timer_App.py,
\* Streamlit_Timer_App_Clean.py and Streamlit_Timer_App_Pretty.py are in
\* corresponding states after every step (same control point, trial, flags,
\* week, snapshot, rank, event and penalty) and return the same collection.
C20_WeeklyFilesAgree ==
    /\ app = [all_T |-> all_T,
              trial |-> trial,
              occurred |-> occurred,
              week |-> week,
              unoccurred_indices |-> unoccurred_indices,
              rank |-> rank,
              event_index |-> pause_index,
              penalty_fraction |-> penalty_fraction,
              pc |-> pc]
    /\ clean = [all_T |-> all_T,
                trial |-> trial,
                occurred |-> occurred,
                week |-> week,
                unoccurred_indices |-> unoccurred_indices,
                rank |-> rank,
                pause_index |-> pause_index,
                penalty_fraction |-> penalty_fraction,
                pc |-> pc]
    /\ pc = "done" => (app.all_T = all_T /\ clean.all_T = all_T)

C20_Witness ==
    /\ pc = "done"
    /\ app.pc = "done"
    /\ clean.pc = "done"
    /\ n = 2
    /\ num_samples = 2
    /\ all_T[0] = 1
    /\ all_T[1] = 2
    /\ app.all_T[1] = 2
    /\ clean.all_T[0] = 1
====
